---- MODULE Spec2Model ----
(***************************************************************************)
(* The language-server session layer of the editor (src/src/lsp.rs): the   *)
(* LspConnector, its two pump threads and the subprocess they talk to.      *)
(*                                                                         *)
(* A Rust String is a sequence of segments.  A segment is an ASCII string   *)
(* (its bytes are its characters) or the name of one non-ASCII character    *)
(* ("U+00E9", "U+20AC").  The subprocess's output is a sequence of bytes,    *)
(* each a one-character string, except that the JSON object inside a body   *)
(* is one token (see Tok).                                                   *)
(***************************************************************************)
EXTENDS Integers, Sequences, FiniteSets, TLC

\* const QUIT_TIMES
QUIT_TIMES == 3

VARIABLES
    initialized,  \* LspConnector.initialized
    tx,           \* outbound channel: payloads sent and not yet received by the write pump
    rx,           \* inbound channel: bodies sent by the read pump and not yet received
    filename,     \* LspConnector.filename
    lang,         \* LspConnector.lang
    rows,         \* the caller's document text: its rows joined with "\r\n"
    cursor,       \* the caller's cursor: <<line, character>>
    pc,           \* where the calling thread is
    arg,          \* current_text of the init() call in progress
    calls,        \* number of facade calls started
    hoverRet,     \* what the last completed hover() received and returned
    sent,         \* every payload send_request put on the outbound channel, in order
    deq,          \* every message recv() returned, in order, with the request it was taken for
    wr,           \* the write pump: "run", "dead" (panicked) or "done" (left its loop)
    written,      \* the payloads written to the subprocess's input, in order
    rd,           \* the read pump: "line" (in read_line), "body" (in read_exact) or "dead"
    acc,          \* bytes read_line / read_exact has taken so far
    need,         \* the length read_exact is reading
    rbuf,         \* the BufReader's buffered, unconsumed bytes
    pipe,         \* bytes in the subprocess's output pipe
    srv,          \* the subprocess: "up" or "exited"
    srvPos,       \* how many written payloads the subprocess has read
    srvPending,   \* the part of a frame the subprocess has still to write
    emitted,      \* the bodies of the frames the subprocess emitted, in order
    lsp,          \* Document.lsp: "Some" or "None"; "Dropped" once the Connector is dropped
    floatings,    \* Document.floatings
    dpc,          \* where Document::open / Document::hover is
    document_rows,\* Document.rows: the rows, each a String
    dirty,        \* Document.dirty
    callLimit,    \* the number of facade calls the run is followed for
    keys,         \* the number of keys the editor has processed, F1 and Ctrl-Q apart
    quit_times,   \* Editor.quit_times
    should_quit,  \* Editor.should_quit
    ctrlq         \* the Ctrl-Q keys read so far: for each, whether the document was dirty

vars == <<initialized, tx, rx, filename, lang, rows, cursor, pc, arg, calls, hoverRet, sent, deq,
          wr, written, rd, acc, need, rbuf, pipe, srv, srvPos, srvPending, emitted,
          lsp, floatings, dpc, document_rows, dirty, callLimit, keys,
          quit_times, should_quit, ctrlq>>

connVars == <<initialized, tx, rx, filename, lang, rows, cursor, pc, arg, calls, hoverRet, sent, deq>>
readVars == <<rd, acc, need, rbuf, pipe>>
srvVars  == <<srv, srvPos, srvPending, emitted>>
quitVars == <<quit_times, should_quit, ctrlq>>
docVars  == <<lsp, floatings, dpc, document_rows, dirty, callLimit, keys, quitVars>>
editVars == <<document_rows, dirty, callLimit, keys, quitVars>>

(***************************************************************************)
(* Bounds.                                                                 *)
(***************************************************************************)
MaxCalls == 2     \* facade calls (init or hover) made on one Connector
MaxFrames == 2    \* frames the subprocess emits

(***************************************************************************)
(* Strings.                                                                *)
(***************************************************************************)
NonAscii == {"U+00E9", "U+20AC"}

\* str::len of one segment: its UTF-8 byte count
Utf8Len(seg) ==
    IF seg = "U+00E9" THEN 2 ELSE IF seg = "U+20AC" THEN 3 ELSE Len(seg)

\* chars().count() of one segment
CharCount(seg) == IF seg \in NonAscii THEN 1 ELSE Len(seg)

RECURSIVE SumOver(_, _, _)
SumOver(s, i, acc0) ==
    IF i > Len(s) THEN acc0 ELSE SumOver(s, i + 1, acc0 + Utf8Len(s[i]))

RECURSIVE CountOver(_, _, _)
CountOver(s, i, acc0) ==
    IF i > Len(s) THEN acc0 ELSE CountOver(s, i + 1, acc0 + CharCount(s[i]))

\* String::len(): the number of UTF-8 bytes
StrLen(s) == SumOver(s, 1, 0)

\* the number of characters, which String::len() is not
StrChars(s) == CountOver(s, 1, 0)

DigitStr == <<"0", "1", "2", "3", "4", "5", "6", "7", "8", "9">>

Digits == {DigitStr[i] : i \in 1..10}

DigitVal(d) == (CHOOSE i \in 1..10 : DigitStr[i] = d) - 1

\* Display for an unsigned integer: its decimal digits, one segment each
RECURSIVE Decimal(_)
Decimal(n) ==
    IF n < 10 THEN <<DigitStr[n + 1]>>
    ELSE Decimal(n \div 10) \o <<DigitStr[(n % 10) + 1]>>

(***************************************************************************)
(* Outgoing messages.                                                      *)
(***************************************************************************)
JSON_RPC == "2.0"

\* Option<i32>::None of Request.id
NoId == -1

\* the documents a Connector is made for: the absolute path and the language identifier
\* given to LspConnector::new, the text given to init(), the position given to hover()
Documents ==
    {[filename |-> <<"/tmp/a", ".rs">>, lang |-> <<"Rust">>,
      rows |-> <<"a">>, cursor |-> <<0, 0>>],
     [filename |-> <<"/tmp/", "U+00E9", ".py">>, lang |-> <<"Python">>,
      rows |-> <<"U+00E9", "\r", "\n", "U+20AC", "b">>, cursor |-> <<3, 5>>]}

\* serde_json's string escaping of one segment
JsonEscapeSeg(seg) ==
    CASE seg = "\r" -> "\\r"
      [] seg = "\n" -> "\\n"
      [] seg = "\"" -> "\\\""
      [] seg = "\\" -> "\\\\"
      [] OTHER -> seg

JsonEscape(s) == [i \in 1..Len(s) |-> JsonEscapeSeg(s[i])]

\* the url crate's percent-encoding of one path segment
UrlEncodeSeg(seg) ==
    CASE seg = "U+00E9" -> "%C3%A9"
      [] seg = "U+20AC" -> "%E2%82%AC"
      [] seg = " " -> "%20"
      [] OTHER -> seg

\* Url::try_from(format!("file:///{}", self.filename)), as serialized
Uri(name) == <<"file:///">> \o [i \in 1..Len(name) |-> UrlEncodeSeg(name[i])]

\* the capabilities init() declares
InitializeParams ==
    [workspace |-> [workspace_folders |-> TRUE],
     text_document |->
        [synchronization |-> [dynamic_registration |-> TRUE],
         hover |-> [dynamic_registration |-> TRUE, content_format |-> <<"plaintext">>]]]

from_request(method, id, params) ==
    [jsonrpc |-> JSON_RPC, method |-> method, params |-> params, id |-> id]

\* a notification built with an id, as a request is
from_notification_with_id(method, params) ==
    [jsonrpc |-> JSON_RPC, method |-> method, params |-> params, id |-> 0]

from_notification(method, params) ==
    [jsonrpc |-> JSON_RPC, method |-> method, params |-> params, id |-> NoId]

InitializeRequest == from_request("initialize", 0, InitializeParams)

InitializedNotification == from_notification("initialized", [empty |-> TRUE])

DidOpenNotification(text) ==
    from_notification("textDocument/didOpen",
        [uri |-> Uri(filename), language_id |-> lang, version |-> 0, text |-> text])

\* a hover request with the two coordinates in each other's place
HoverRequest_swapped(line, character) ==
    from_request("textDocument/hover", 1,
        [uri |-> Uri(filename), line |-> character, character |-> line])

HoverRequest(line, character) ==
    from_request("textDocument/hover", 1,
        [uri |-> Uri(filename), line |-> line, character |-> character])

\* serde_json::to_value(params), written out (a Map keeps its keys sorted)
ParamsJson(req) ==
    CASE req.method = "initialize" ->
            <<"{\"capabilities\":{\"textDocument\":{\"hover\":{\"contentFormat\":[\"">>
            \o req.params.text_document.hover.content_format
            \o <<"\"],\"dynamicRegistration\":true},\"synchronization\":{\"dynamicRegistration\":true}},">>
            \o <<"\"workspace\":{\"workspaceFolders\":true}},\"processId\":null,\"rootUri\":null}">>
      [] req.method = "initialized" -> <<"{}">>
      [] req.method = "textDocument/didOpen" ->
            <<"{\"textDocument\":{\"languageId\":\"">> \o JsonEscape(req.params.language_id)
            \o <<"\",\"text\":\"">> \o JsonEscape(req.params.text)
            \o <<"\",\"uri\":\"">> \o req.params.uri
            \o <<"\",\"version\":">> \o Decimal(req.params.version) \o <<"}}">>
      [] req.method = "textDocument/hover" ->
            <<"{\"position\":{\"character\":">> \o Decimal(req.params.character)
            \o <<",\"line\":">> \o Decimal(req.params.line)
            \o <<"},\"textDocument\":{\"uri\":\"">> \o req.params.uri \o <<"\"}}">>

\* serde_json::to_string(req): fields in declaration order, id skipped when None
to_string(req) ==
    <<"{\"jsonrpc\":\"", req.jsonrpc, "\",\"method\":\"", req.method, "\",\"params\":">>
    \o ParamsJson(req)
    \o (IF req.id = NoId THEN <<>> ELSE <<",\"id\":">> \o Decimal(req.id))
    \o <<"}">>

\* a length counted in characters: s.chars().count()
ContentLength_chars(s) == StrChars(s)

\* the length send_request declares: s.len()
ContentLength(s) == StrLen(s)

\* format!("Content-Length: {}\r\n\r\n{}", s.len(), s)
Payload(req) ==
    LET s == to_string(req)
    IN  <<"Content-Length: ">> \o Decimal(ContentLength(s)) \o <<"\r\n\r\n">> \o s

(***************************************************************************)
(* Incoming messages.  The JSON object of a body is one token naming what  *)
(* the subprocess put in it: the id, the shape of result / error, and      *)
(* (for the properties only; the code never reads it) the position in the  *)
(* subprocess's input of the request it answers, 0 when it answers none.   *)
(***************************************************************************)
\* result shapes: initialize capabilities, a markup block, a marked string, an array of
\* marked strings, the number 42, null; then an error reply and a server notification
ResultShapes == {"caps", "markup", "scalar", "array", "n42"}
Shapes == ResultShapes \cup {"null", "error", "notif"}

\* markup blocks by their value: "foo\nbar"; "foo\r\n\nbar\n", with a CR LF ending, a
\* blank line and a final newline; and the empty string
MarkupShapes == {"markup", "markup_lines", "markup_empty"}

\* the value of a markup block, its line endings apart from the text between them
MarkupValue(result) ==
    CASE result = "markup" -> <<"foo", "\n", "bar">>
      [] result = "markup_lines" -> <<"foo", "\r", "\n", "\n", "bar", "\n">>
      [] OTHER -> <<>>

\* an id no request of this client carries
StrayId == 7

MaxSent == 3 * MaxCalls

InMsgs == [id : {NoId, 0, 1, StrayId}, re : 0..MaxSent, shape : Shapes \cup MarkupShapes]

RECURSIVE Join(_)
Join(s) == IF s = <<>> THEN "" ELSE Head(s) \o Join(Tail(s))

Tok(m) ==
    m.shape \o "/" \o (IF m.id = NoId THEN "-" ELSE Join(Decimal(m.id)))
            \o "/" \o Join(Decimal(m.re))

TokTable == [m \in InMsgs |-> Tok(m)]

Toks == {TokTable[m] : m \in InMsgs}

MsgOfTok(t) == CHOOSE m \in InMsgs : TokTable[m] = t

\* the body of a well-formed message
Body(m) == <<"{", TokTable[m], "}">>

\* a body that is no JSON document
JunkBody == <<"j", "?">>

\* serde_json::from_str::<Response>: the fields of Response, or a parse error
ParseResponse(raw) ==
    IF Len(raw) = 3 /\ raw[1] = "{" /\ raw[3] = "}" /\ raw[2] \in Toks
    THEN LET m == MsgOfTok(raw[2])
         IN  [ok |-> TRUE, id |-> m.id, re |-> m.re, shape |-> m.shape,
              result |-> IF m.shape \in ResultShapes \cup MarkupShapes THEN m.shape ELSE "None",
              error |-> IF m.shape = "error" THEN "Some" ELSE "None"]
    ELSE [ok |-> FALSE, id |-> NoId, re |-> 0, shape |-> "unparseable",
          result |-> "None", error |-> "None"]

\* serde_json::from_value::<Hover>: the variant of HoverContents, or "Err"
ParseHover(result) ==
    CASE result \in MarkupShapes -> "Markup"
      [] result = "scalar" -> "Scalar"
      [] result = "array" -> "Array"
      [] OTHER -> "Err"

\* hover() that hands on whatever from_value gave, its error included
HoverResult_unwrap(raw) ==
    LET res == ParseResponse(raw)
    IN  IF res.ok /\ res.result # "None" THEN ParseHover(res.result) ELSE "None"

\* what hover() returns for the string recv() gave it: "None", or the variant of the
\* contents of Some(hover)
HoverResult(raw) ==
    LET res == ParseResponse(raw)
    IN  IF res.ok /\ res.result # "None" /\ ParseHover(res.result) # "Err"
        THEN ParseHover(res.result)
        ELSE "None"

(***************************************************************************)
(* The Connector.  The calling thread is at pc: "idle" between calls,      *)
(* "init_recv", "init_notify", "init_open" inside init(), "hover_recv"     *)
(* inside hover(), "panic_recv" / "panic_send" once an unwrap() panicked.  *)
(***************************************************************************)
NoHover == [raw |-> <<>>, ret |-> "no call"]

\* LspConnector::new that sends the initialize request itself
Init_eager ==
    /\ initialized = FALSE
    /\ tx = <<Payload(InitializeRequest)>> /\ rx = <<>>
    /\ \E d \in Documents :
          filename = d.filename /\ lang = d.lang /\ rows = d.rows /\ cursor = d.cursor
    /\ pc = "idle" /\ arg = <<>> /\ calls = 0
    /\ hoverRet = NoHover
    /\ sent = <<Payload(InitializeRequest)>> /\ deq = <<>>
    /\ wr = "run" /\ written = <<>>
    /\ rd = "line" /\ acc = <<>> /\ need = 0 /\ rbuf = <<>> /\ pipe = <<>>
    /\ srv = "up" /\ srvPos = 0 /\ srvPending = <<>> /\ emitted = <<>>
    /\ lsp = "Some" /\ floatings = <<>> /\ dpc = "idle"
    /\ document_rows = <<>> /\ dirty = FALSE /\ callLimit = MaxCalls /\ keys = 0
    /\ quit_times = QUIT_TIMES /\ should_quit = FALSE /\ ctrlq = <<>>

\* LspConnector::new: the state after a successful spawn
Init ==
    /\ initialized = FALSE
    /\ tx = <<>> /\ rx = <<>>
    /\ \E d \in Documents :
          filename = d.filename /\ lang = d.lang /\ rows = d.rows /\ cursor = d.cursor
    /\ pc = "idle" /\ arg = <<>> /\ calls = 0
    /\ hoverRet = NoHover
    /\ sent = <<>> /\ deq = <<>>
    /\ wr = "run" /\ written = <<>>
    /\ rd = "line" /\ acc = <<>> /\ need = 0 /\ rbuf = <<>> /\ pipe = <<>>
    /\ srv = "up" /\ srvPos = 0 /\ srvPending = <<>> /\ emitted = <<>>
    /\ lsp = "Some" /\ floatings = <<>> /\ dpc = "idle"
    /\ document_rows = <<>> /\ dirty = FALSE /\ callLimit = MaxCalls /\ keys = 0
    /\ quit_times = QUIT_TIMES /\ should_quit = FALSE /\ ctrlq = <<>>

\* send_request: the payload goes on the outbound channel; send(..).unwrap() panics
\* when the write pump has dropped the receiver
send_request(req, next) ==
    IF wr = "run"
    THEN /\ tx' = Append(tx, Payload(req))
         /\ sent' = Append(sent, Payload(req))
         /\ pc' = next
    ELSE /\ pc' = "panic_send"
         /\ UNCHANGED <<tx, sent>>

\* recv that reports the failure as soon as the read pump is gone, queued messages or not
recv_closed_first ==
    IF rd = "dead" THEN "Err"
    ELSE IF rx # <<>> THEN "Ok"
    ELSE "Empty"

\* recv that gives up on an empty channel instead of sleeping and polling again
recv_give_up == IF rx # <<>> THEN "Ok" ELSE "Err"

\* recv: one poll of the inbound channel
recv ==
    IF rx # <<>> THEN "Ok"
    ELSE IF rd = "dead" THEN "Err"
    ELSE "Empty"

\* init() that marks the Connector uninitialized while it redoes the handshake
init_send_initialize_reset(text) ==
    /\ pc = "idle"
    /\ calls < callLimit
    /\ calls' = calls + 1
    /\ arg' = text
    /\ send_request(InitializeRequest, "init_recv")
    /\ initialized' = FALSE
    /\ UNCHANGED <<rx, filename, lang, rows, cursor, hoverRet, deq>>
    /\ UNCHANGED <<wr, written, readVars, srvVars>>

\* init(), up to the first recv()
init_send_initialize(text) ==
    /\ pc = "idle"
    /\ calls < callLimit
    /\ calls' = calls + 1
    /\ arg' = text
    /\ send_request(InitializeRequest, "init_recv")
    /\ UNCHANGED <<initialized, rx, filename, lang, rows, cursor, hoverRet, deq>>
    /\ UNCHANGED <<wr, written, readVars, srvVars>>

\* init() polling once with try_recv() instead of waiting in recv()
init_recv_try_recv ==
    /\ pc = "init_recv"
    /\ IF rx # <<>>
       THEN /\ rx' = Tail(rx)
            /\ deq' = Append(deq, [msg |-> Head(rx), for |-> Len(sent)])
       ELSE UNCHANGED <<rx, deq>>
    /\ pc' = "init_notify"
    /\ UNCHANGED <<initialized, tx, filename, lang, rows, cursor, arg, calls, hoverRet, sent>>
    /\ UNCHANGED <<wr, written, readVars, srvVars>>

\* init(): self.recv().unwrap()
init_recv ==
    /\ pc = "init_recv"
    /\ recv # "Empty"
    /\ IF recv = "Ok"
       THEN /\ rx' = Tail(rx)
            /\ deq' = Append(deq, [msg |-> Head(rx), for |-> Len(sent)])
            /\ pc' = "init_notify"
       ELSE /\ pc' = "panic_recv"
            /\ UNCHANGED <<rx, deq>>
    /\ UNCHANGED <<initialized, tx, filename, lang, rows, cursor, arg, calls, hoverRet, sent>>
    /\ UNCHANGED <<wr, written, readVars, srvVars>>

\* init() that writes the initialized notification to the subprocess's input itself
init_send_initialized_direct ==
    /\ pc = "init_notify"
    /\ pc' = "init_open"
    /\ sent' = Append(sent, Payload(InitializedNotification))
    /\ written' = Append(written, Payload(InitializedNotification))
    /\ UNCHANGED <<initialized, tx, rx, filename, lang, rows, cursor, arg, calls, hoverRet, deq>>
    /\ UNCHANGED <<wr, readVars, srvVars>>

\* init(): the initialized notification
init_send_initialized ==
    /\ pc = "init_notify"
    /\ send_request(InitializedNotification, "init_open")
    /\ UNCHANGED <<initialized, rx, filename, lang, rows, cursor, arg, calls, hoverRet, deq>>
    /\ UNCHANGED <<wr, written, readVars, srvVars>>

\* init(): the didOpen notification, then self.initialized = true
init_send_didOpen ==
    /\ pc = "init_open"
    /\ send_request(DidOpenNotification(arg), "idle")
    /\ initialized' = IF wr = "run" THEN TRUE ELSE initialized
    /\ UNCHANGED <<rx, filename, lang, rows, cursor, arg, calls, hoverRet, deq>>
    /\ UNCHANGED <<wr, written, readVars, srvVars>>

\* hover(), up to recv()
hover_send(line, character) ==
    /\ pc = "idle"
    /\ calls < callLimit
    /\ calls' = calls + 1
    /\ send_request(HoverRequest(line, character), "hover_recv")
    /\ UNCHANGED <<initialized, rx, filename, lang, rows, cursor, arg, hoverRet, deq>>
    /\ UNCHANGED <<wr, written, readVars, srvVars>>

\* hover(): self.recv().unwrap_or_default() and the decoding of what it gave
hover_recv ==
    /\ pc = "hover_recv"
    /\ recv # "Empty"
    /\ LET raw == IF recv = "Ok" THEN Head(rx) ELSE <<>>
       IN  /\ hoverRet' = [raw |-> raw, ret |-> HoverResult(raw)]
           /\ pc' = "idle"
    /\ IF recv = "Ok"
       THEN /\ rx' = Tail(rx)
            /\ deq' = Append(deq, [msg |-> Head(rx), for |-> Len(sent)])
       ELSE UNCHANGED <<rx, deq>>
    /\ UNCHANGED <<initialized, tx, filename, lang, rows, cursor, arg, calls, sent>>
    /\ UNCHANGED <<wr, written, readVars, srvVars>>

(***************************************************************************)
(* The write pump.                                                         *)
(***************************************************************************)
\* receiver.recv() then stdin.write_all(..).unwrap(): the write fails once the
\* subprocess has gone, and the panic drops the receiver
write_pump ==
    /\ wr = "run"
    /\ tx # <<>>
    /\ tx' = Tail(tx)
    /\ IF srv = "up"
       THEN /\ written' = Append(written, Head(tx))
            /\ wr' = "run"
       ELSE /\ wr' = "dead"
            /\ UNCHANGED written
    /\ UNCHANGED <<initialized, rx, filename, lang, rows, cursor, pc, arg, calls, hoverRet, sent, deq>>
    /\ UNCHANGED <<readVars, srvVars>>

\* receiver.recv() is Err once the Connector, and its sender with it, is dropped and the
\* channel is drained: the pump leaves its loop, and its stdin handle is released
write_pump_disconnected ==
    /\ wr = "run"
    /\ tx = <<>>
    /\ lsp = "Dropped"
    /\ wr' = "done"
    /\ UNCHANGED <<connVars, written, readVars, srvVars>>

(***************************************************************************)
(* The subprocess: it answers the requests it reads, in order, emits       *)
(* frames nobody asked for, writes a frame in one or two pieces, and exits.*)
(***************************************************************************)
CRLF == <<"\r", "\n">>

ContentLengthHeader ==
    <<"C", "o", "n", "t", "e", "n", "t", "-", "L", "e", "n", "g", "t", "h", ":", " ">>

ContentTypeHeader ==
    <<"C", "o", "n", "t", "e", "n", "t", "-", "T", "y", "p", "e", ":", " ", "x">>

\* header layouts: Content-Length alone, with a Content-Type header after or before it,
\* and (no frame of the protocol) a Content-Length that is no number
Layouts == {"plain", "type_after", "type_before", "bad_length"}

Frame(layout, body) ==
    LET len == ContentLengthHeader \o Decimal(Len(body)) \o CRLF
        typ == ContentTypeHeader \o CRLF
    IN  CASE layout = "plain" -> len \o CRLF \o body
          [] layout = "type_after" -> len \o typ \o CRLF \o body
          [] layout = "type_before" -> typ \o len \o CRLF \o body
          [] layout = "bad_length" -> ContentLengthHeader \o <<"x">> \o CRLF \o CRLF \o body

\* index of the first "\n" of s, 0 when it has none
RECURSIVE FirstNL(_, _)
FirstNL(s, i) ==
    IF i > Len(s) THEN 0 ELSE IF s[i] = "\n" THEN i ELSE FirstNL(s, i + 1)

\* how much of a frame the subprocess's first write holds: all of it, or (split) the
\* bytes up to the end of the Content-Length line
FirstWrite(layout, body, split) ==
    LET len == Len(ContentLengthHeader \o Decimal(Len(body)) \o CRLF)
        typ == Len(ContentTypeHeader \o CRLF)
    IN  IF ~split THEN Len(Frame(layout, body))
        ELSE IF layout = "type_before" THEN typ + len ELSE len

\* what the subprocess reads in a payload written to its input: the method, and the id
\* when the body ends with one (NoId for a notification)
RequestOf(payload) ==
    LET body == CHOOSE i \in 1..Len(payload) : payload[i] = "\r\n\r\n"
        n == Len(payload)
    IN  [method |-> payload[body + 4],
         id |-> IF payload[n - 2] = ",\"id\":" THEN DigitVal(payload[n - 1]) ELSE NoId]

\* position in written of the next request the subprocess has not read, 0 when none
NextRequest ==
    LET idx == {k \in (srvPos + 1)..Len(written) : RequestOf(written[k]).id # NoId}
    IN  IF idx = {} THEN 0 ELSE CHOOSE k \in idx : \A j \in idx : k <= j

\* the shapes the subprocess answers a request with
ReplyShapes(method) ==
    IF method = "initialize" THEN {"caps", "error"}
    ELSE MarkupShapes \cup {"scalar", "array", "n42", "null", "error"}

Emit(layout, body, split) ==
    LET frame == Frame(layout, body)
        cut == FirstWrite(layout, body, split)
    IN  /\ pipe' = pipe \o SubSeq(frame, 1, cut)
        /\ srvPending' = SubSeq(frame, cut + 1, Len(frame))
        /\ emitted' = Append(emitted, body)

\* the subprocess answers the next request with a reply carrying that request's id
SrvReply(shape, layout, split) ==
    /\ srv = "up"
    /\ srvPending = <<>>
    /\ Len(emitted) < MaxFrames
    /\ LET n == NextRequest
           req == RequestOf(written[n])
       IN  /\ n # 0
           /\ shape \in ReplyShapes(req.method)
           /\ srvPos' = n
           /\ Emit(layout, Body([id |-> req.id, re |-> n, shape |-> shape]), split)
    /\ UNCHANGED <<connVars, wr, written, rd, acc, need, rbuf, srv>>

\* the subprocess emits a frame that answers nothing: a notification, a reply with an
\* id of its own, or a body that is not JSON
SrvUnsolicited(body, layout, split) ==
    /\ srv = "up"
    /\ srvPending = <<>>
    /\ Len(emitted) < MaxFrames
    /\ Emit(layout, body, split)
    /\ UNCHANGED <<connVars, wr, written, rd, acc, need, rbuf, srv, srvPos>>

\* the other ways the subprocess writes a frame: in two pieces, or with a Content-Type
\* header after or before the Content-Length header
Wires == {<<"plain", TRUE>>, <<"type_after", FALSE>>, <<"type_before", FALSE>>}

\* the frames nobody asked for that it chooses from
Unsolicited ==
    {<<Body([id |-> NoId, re |-> 0, shape |-> "notif"]), "plain", FALSE>>,
     <<Body([id |-> StrayId, re |-> 0, shape |-> "markup"]), "plain", FALSE>>,
     <<JunkBody, "plain", FALSE>>,
     <<JunkBody, "bad_length", FALSE>>}

\* the second write of a frame written in two pieces
SrvFlush ==
    /\ srv = "up"
    /\ srvPending # <<>>
    /\ pipe' = pipe \o srvPending
    /\ srvPending' = <<>>
    /\ UNCHANGED <<connVars, wr, written, rd, acc, need, rbuf, srv, srvPos, emitted>>

\* the subprocess exits: its output ends after what it wrote, its input is closed
SrvExit ==
    /\ srv = "up"
    /\ srv' = "exited"
    /\ srvPending' = <<>>
    /\ UNCHANGED <<connVars, wr, written, readVars, srvPos, emitted>>

(***************************************************************************)
(* The read pump.                                                          *)
(***************************************************************************)
ToLowerByte(b) ==
    CASE b = "C" -> "c" [] b = "L" -> "l" [] b = "T" -> "t" [] OTHER -> b

to_lowercase(s) == [i \in 1..Len(s) |-> ToLowerByte(s[i])]

starts_with(s, p) == Len(s) >= Len(p) /\ SubSeq(s, 1, Len(p)) = p

Prefix == to_lowercase(ContentLengthHeader)

RECURSIVE ParseDigits(_, _)
ParseDigits(s, v) ==
    IF s = <<>> THEN v ELSE ParseDigits(Tail(s), 10 * v + DigitVal(Head(s)))

\* len_str.parse::<usize>(): the value, or -1 for Err
parse_usize(s) ==
    IF s # <<>> /\ \A i \in 1..Len(s) : s[i] \in Digits THEN ParseDigits(s, 0) ELSE -1

\* buf.get(16..).unwrap().strip_suffix("\r\n").unwrap().parse().unwrap(): -1 when an
\* unwrap panics
HeaderLength(line) ==
    LET rest == SubSeq(line, Len(Prefix) + 1, Len(line))
    IN  IF Len(rest) >= 2 /\ SubSeq(rest, Len(rest) - 1, Len(rest)) = CRLF
        THEN parse_usize(SubSeq(rest, 1, Len(rest) - 2))
        ELSE -1

\* String::from_utf8 accepts the bytes
ValidUtf8(bytes) == \A i \in 1..Len(bytes) : bytes[i] # "\\xFF"

\* what a read of the BufReader sees: its buffer, or when that is empty what the pipe holds
Avail == IF rbuf # <<>> THEN rbuf ELSE pipe

\* the pipe after that read
PipeAfter == IF rbuf # <<>> THEN pipe ELSE <<>>

\* end of stream: nothing buffered, nothing in the pipe, the subprocess gone
Eof == rbuf = <<>> /\ pipe = <<>> /\ srv = "exited"

\* f.consume("\r\n".len()): drops that many of the bytes that are buffered
consume(buf, amt) == SubSeq(buf, (IF amt < Len(buf) THEN amt ELSE Len(buf)) + 1, Len(buf))

\* what the loop does with the line read_line returned, rest being what stays buffered
HandleLine(line, rest) ==
    IF ~starts_with(to_lowercase(line), Prefix)
    THEN /\ rd' = "line" /\ need' = 0 /\ rbuf' = rest
    ELSE IF HeaderLength(line) < 0
    THEN /\ rd' = "dead" /\ need' = 0 /\ rbuf' = rest
    ELSE /\ rd' = "body" /\ need' = HeaderLength(line) /\ rbuf' = consume(rest, Len(CRLF))

\* f.read_line(&mut buf) and the header handling that follows it
read_pump_read_line ==
    /\ rd = "line"
    /\ Avail # <<>> \/ Eof
    /\ LET nl == FirstNL(Avail, 1)
       IN  IF Eof
           THEN /\ HandleLine(acc, <<>>)
                /\ acc' = <<>>
                /\ pipe' = pipe
           ELSE IF nl = 0
           THEN /\ acc' = acc \o Avail
                /\ rbuf' = <<>>
                /\ pipe' = PipeAfter
                /\ UNCHANGED <<rd, need>>
           ELSE /\ HandleLine(acc \o SubSeq(Avail, 1, nl), SubSeq(Avail, nl + 1, Len(Avail)))
                /\ acc' = <<>>
                /\ pipe' = PipeAfter
    /\ UNCHANGED <<connVars, wr, written, srvVars>>

\* f.read_exact(content), String::from_utf8(content).unwrap(), sender.send(s).unwrap():
\* the send fails once the Connector, and its receiver with it, is dropped
read_pump_read_exact ==
    /\ rd = "body"
    /\ Len(acc) = need \/ Avail # <<>> \/ Eof
    /\ LET k == IF need - Len(acc) < Len(Avail) THEN need - Len(acc) ELSE Len(Avail)
           got == acc \o SubSeq(Avail, 1, k)
       IN  /\ rbuf' = IF k = 0 THEN rbuf ELSE SubSeq(Avail, k + 1, Len(Avail))
           /\ pipe' = IF k = 0 THEN pipe ELSE PipeAfter
           /\ IF Len(got) = need
              THEN /\ acc' = <<>>
                   /\ need' = 0
                   /\ IF ValidUtf8(got) /\ lsp # "Dropped"
                      THEN rd' = "line" /\ rx' = Append(rx, got)
                      ELSE rd' = "dead" /\ rx' = rx
              ELSE /\ acc' = got
                   /\ rd' = IF Eof THEN "dead" ELSE "body"
                   /\ UNCHANGED <<need, rx>>
    /\ UNCHANGED <<initialized, tx, filename, lang, rows, cursor, pc, arg, calls, hoverRet, sent, deq>>
    /\ UNCHANGED <<wr, written, srvVars>>

(***************************************************************************)
(* The Document: it owns the Connector, performs the handshake on the      *)
(* first hover trigger and turns a markup reply into its one tooltip.      *)
(* dpc is "closed" before Document::open, "idle" between hover triggers,   *)
(* "init" / "hover" while Document::hover is inside lsp.init / lsp.hover,  *)
(* "panic_open" once Document::open panicked.                              *)
(***************************************************************************)
\* a line without its "\r" when the line ending was "\r\n"
StripCR(l) == IF l # <<>> /\ l[Len(l)] = "\r" THEN SubSeq(l, 1, Len(l) - 1) ELSE l

RECURSIVE LinesFrom(_, _, _)
LinesFrom(s, cur, out) ==
    IF s = <<>> THEN (IF cur = <<>> THEN out ELSE Append(out, cur))
    ELSE IF Head(s) = "\n" THEN LinesFrom(Tail(s), <<>>, Append(out, StripCR(cur)))
    ELSE LinesFrom(Tail(s), Append(cur, Head(s)), out)

\* lines() that yields the last line first
lines_reversed(txt) ==
    LET ls == LinesFrom(txt, <<>>, <<>>)
    IN  [i \in 1..Len(ls) |-> ls[Len(ls) + 1 - i]]

\* str::lines(): the lines of a text, each without its line ending
lines(txt) == LinesFrom(txt, <<>>, <<>>)

\* .filter(|x| !x.is_empty())
NonEmptyLines(ls) == SelectSeq(ls, LAMBDA l : l # <<>>)

\* x.graphemes(true).count()
graphemes_count(l) == CountOver(l, 1, 0)

\* .max().unwrap_or(0)
MaxWidth(ls) ==
    IF ls = <<>> THEN 0
    ELSE CHOOSE w \in {graphemes_count(ls[i]) : i \in 1..Len(ls)} :
             \A i \in 1..Len(ls) : graphemes_count(ls[i]) <= w

\* u32::saturating_add: the sum, which for the cursor rows here stays below u32::MAX
saturating_add(a, b) == a + b

\* the arguments Document::hover gives FloatingItem::new for the markup value txt
Tooltip(x, y, txt) ==
    [pos |-> [x |-> x, y |-> saturating_add(y, 1)],
     width |-> MaxWidth(lines(txt)),
     height |-> Len(NonEmptyLines(lines(txt))),
     msg |-> NonEmptyLines(lines(txt))]

\* FileType::default
FileType_default ==
    [name |-> "No filetype", lsp_name |-> "None", hl_lang |-> "None"]

\* FileType::from(file_name).unwrap_or_default()
FileType_from(name) ==
    LET ext == IF name = <<>> THEN "" ELSE name[Len(name)]
    IN  CASE ext = ".rs" -> [name |-> "Rust", lsp_name |-> "rust-analyzer", hl_lang |-> "Some"]
          [] ext = ".go" -> [name |-> "Go", lsp_name |-> "gopls", hl_lang |-> "Some"]
          [] ext = ".cpp" -> [name |-> "Cpp", lsp_name |-> "clangd", hl_lang |-> "Some"]
          [] ext = ".c" -> [name |-> "C", lsp_name |-> "clangd", hl_lang |-> "Some"]
          [] ext = ".py" -> [name |-> "Python", lsp_name |-> "pyright", hl_lang |-> "Some"]
          [] OTHER -> FileType_default

\* a file whose type has no language server configured
PlainTextDocument ==
    [filename |-> <<"/tmp/notes", ".txt">>, lang |-> <<"No filetype">>,
     rows |-> <<"a">>, cursor |-> <<0, 0>>]

\* a file whose path has a space in it
SpacedPathDocument ==
    [filename |-> <<"/tmp/my", " ", "a", ".rs">>, lang |-> <<"Rust">>,
     rows |-> <<"a">>, cursor |-> <<0, 0>>]

\* the rows joined with a bare line feed
RECURSIVE join_rows_lf(_)
join_rows_lf(rs) ==
    IF rs = <<>> THEN <<>>
    ELSE IF Len(rs) = 1 THEN rs[1]
    ELSE rs[1] \o <<"\n">> \o join_rows_lf(Tail(rs))

\* rows.iter().map(|r| r.as_str()).collect::<Vec<&str>>().join("\r\n")
RECURSIVE join_rows(_)
join_rows(rs) ==
    IF rs = <<>> THEN <<>>
    ELSE IF Len(rs) = 1 THEN rs[1]
    ELSE rs[1] \o <<"\r", "\n">> \o join_rows(Tail(rs))

\* Document::open as Editor::default calls it: readable says whether read_to_string
\* succeeds (Document::default() replaces the document when it does not), spawns whether
\* the language server's executable starts
Document_open(readable, spawns) ==
    /\ dpc = "closed"
    /\ LET file_type == FileType_from(filename)
       IN  IF ~readable
           THEN /\ dpc' = "idle" /\ lsp' = "None"
                /\ rows' = <<>> /\ filename' = <<>> /\ lang' = lang
                /\ document_rows' = <<>>
           ELSE IF file_type.hl_lang = "None"
           THEN /\ dpc' = "panic_open"
                /\ UNCHANGED <<lsp, rows, filename, lang, document_rows>>
           ELSE /\ dpc' = "idle"
                /\ lsp' = IF file_type.lsp_name # "None" /\ spawns THEN "Some" ELSE "None"
                /\ lang' = <<file_type.name>>
                /\ document_rows' = lines(rows)
                /\ rows' = join_rows(lines(rows))
                /\ UNCHANGED filename
    /\ UNCHANGED <<initialized, tx, rx, cursor, pc, arg, calls, hoverRet, sent, deq, floatings>>
    /\ UNCHANGED <<dirty, callLimit, keys, quitVars>>
    /\ UNCHANGED <<wr, written, readVars, srvVars>>

\* Document::hover that asks for the hover without a handshake
Document_hover_no_init(x, y) ==
    /\ dpc = "idle"
    /\ pc = "idle"
    /\ IF lsp = "None"
       THEN UNCHANGED vars
       ELSE /\ hover_send(y, x)
            /\ dpc' = "hover"
            /\ UNCHANGED <<lsp, floatings, editVars>>

\* Document::hover that redoes the handshake on every trigger
Document_hover_reinit(x, y) ==
    /\ dpc = "idle"
    /\ pc = "idle"
    /\ IF lsp = "None"
       THEN UNCHANGED vars
       ELSE /\ init_send_initialize(rows)
            /\ dpc' = "init"
            /\ UNCHANGED <<lsp, floatings, editVars>>

\* Document::hover(x, y), up to the first call on the Connector: nothing without one,
\* lsp.init(rows joined) when it is not initialized, else lsp.hover(y, x)
Document_hover(x, y) ==
    /\ dpc = "idle"
    /\ pc = "idle"
    /\ IF lsp = "None"
       THEN UNCHANGED vars
       ELSE IF ~initialized
       THEN /\ init_send_initialize(rows)
            /\ dpc' = "init"
            /\ UNCHANGED <<lsp, floatings, editVars>>
       ELSE /\ hover_send(y, x)
            /\ dpc' = "hover"
            /\ UNCHANGED <<lsp, floatings, editVars>>

\* Document::hover: lsp.init has returned, lsp.hover(y, x) follows
Document_hover_after_init(x, y) ==
    /\ dpc = "init"
    /\ pc = "idle"
    /\ hover_send(y, x)
    /\ dpc' = "hover"
    /\ UNCHANGED <<lsp, floatings, editVars>>

\* the match with an arm that shows a marked string or an array of them as well
Document_hover_match_any(x, y) ==
    /\ dpc = "hover"
    /\ pc = "idle"
    /\ dpc' = "idle"
    /\ floatings' = IF hoverRet.ret \in {"Markup", "Scalar", "Array"}
                    THEN <<Tooltip(x, y, <<"foo">>)>>
                    ELSE floatings
    /\ UNCHANGED <<connVars, wr, written, readVars, srvVars, lsp, editVars>>

\* the match whose Markup arm appends the tooltip without clearing the list first
Document_hover_match_no_clear(x, y) ==
    /\ dpc = "hover"
    /\ pc = "idle"
    /\ dpc' = "idle"
    /\ floatings' = IF hoverRet.ret = "Markup"
                    THEN Append(floatings,
                                Tooltip(x, y, MarkupValue(ParseResponse(hoverRet.raw).result)))
                    ELSE floatings
    /\ UNCHANGED <<connVars, wr, written, readVars, srvVars, lsp, editVars>>

\* Document::hover: the match on what lsp.hover returned
Document_hover_match(x, y) ==
    /\ dpc = "hover"
    /\ pc = "idle"
    /\ dpc' = "idle"
    /\ floatings' = IF hoverRet.ret = "Markup"
                    THEN <<Tooltip(x, y, MarkupValue(ParseResponse(hoverRet.raw).result))>>
                    ELSE floatings
    /\ UNCHANGED <<connVars, wr, written, readVars, srvVars, lsp, editVars>>

(***************************************************************************)
(* The editor's keys (src/src/editor.rs) and the Document operations they  *)
(* call.  A Row is the sequence of its graphemes; the cursor is <<y, x>>.  *)
(***************************************************************************)
\* the number of keys, F1 apart, the editor is followed for
MaxKeys == 2

\* terminal.size().height of move_cursor
TerminalHeight == 2

\* the characters Key::Char brings
EditorChars == {"a", "\n"}

\* Row::insert
Row_insert(row, at, c) ==
    IF at >= Len(row) THEN Append(row, c)
    ELSE SubSeq(row, 1, at) \o <<c>> \o SubSeq(row, at + 1, Len(row))

\* Row::delete
Row_delete(row, at) ==
    IF at >= Len(row) THEN row
    ELSE SubSeq(row, 1, at) \o SubSeq(row, at + 2, Len(row))

\* Row::split: what stays in the row, and the row split off
Row_split(row, at) ==
    LET k == IF at < Len(row) THEN at ELSE Len(row)
    IN  <<SubSeq(row, 1, k), SubSeq(row, k + 1, Len(row))>>

\* Vec::insert(index, element)
Vec_insert(v, index, e) == SubSeq(v, 1, index) \o <<e>> \o SubSeq(v, index + 1, Len(v))

\* Vec::remove(index)
Vec_remove(v, index) == SubSeq(v, 1, index) \o SubSeq(v, index + 2, Len(v))

\* Document::insert_newline
insert_newline(rs, x, y) ==
    IF y = Len(rs) THEN Append(rs, <<>>)
    ELSE LET parts == Row_split(rs[y + 1], x)
         IN  Vec_insert([rs EXCEPT ![y + 1] = parts[1]], y + 1, parts[2])

\* Document::insert: the rows and the dirty flag it leaves
Document_insert(rs, d, x, y, c) ==
    IF y > Len(rs) THEN [rows |-> rs, dirty |-> d]
    ELSE IF c = "\n" THEN [rows |-> insert_newline(rs, x, y), dirty |-> TRUE]
    ELSE IF y = Len(rs) THEN [rows |-> Append(rs, Row_insert(<<>>, 0, c)), dirty |-> TRUE]
    ELSE [rows |-> [rs EXCEPT ![y + 1] = Row_insert(rs[y + 1], x, c)], dirty |-> TRUE]

\* Document::delete: the rows and the dirty flag it leaves
Document_delete(rs, d, x, y) ==
    IF y >= Len(rs) THEN [rows |-> rs, dirty |-> d]
    ELSE IF x = Len(rs[y + 1]) /\ y < Len(rs) - 1
    THEN [rows |-> Vec_remove([rs EXCEPT ![y + 1] = rs[y + 1] \o rs[y + 2]], y + 1),
          dirty |-> TRUE]
    ELSE [rows |-> [rs EXCEPT ![y + 1] = Row_delete(rs[y + 1], x)], dirty |-> TRUE]

\* the width move_cursor takes for row y: its length, 0 when there is no such row
RowWidth(rs, y) == IF y < Len(rs) THEN Len(rs[y + 1]) ELSE 0

MoveKeys == {"Up", "Down", "Left", "Right", "PageUp", "PageDown", "End", "Home"}

\* Editor::move_cursor: the cursor <<y, x>> it leaves
move_cursor(rs, x, y, key) ==
    LET height == Len(rs)
        width == RowWidth(rs, y)
        moved ==
            CASE key = "PageUp" ->
                    <<IF y > TerminalHeight THEN y - TerminalHeight ELSE 0, x>>
              [] key = "PageDown" ->
                    <<IF y + TerminalHeight < height THEN y + TerminalHeight ELSE height, x>>
              [] key = "Home" -> <<y, 0>>
              [] key = "End" -> <<y, width>>
              [] key = "Up" -> <<IF y > 0 THEN y - 1 ELSE 0, x>>
              [] key = "Down" -> <<IF y < height THEN y + 1 ELSE y, x>>
              [] key = "Left" ->
                    IF x >= 1 THEN <<y, x - 1>>
                    ELSE IF y >= 1 THEN <<y - 1, RowWidth(rs, y - 1)>>
                    ELSE <<y, x>>
              [] key = "Right" ->
                    IF x < width THEN <<y, x + 1>>
                    ELSE IF y < height THEN <<y + 1, 0>>
                    ELSE <<y, x>>
              [] OTHER -> <<y, x>>
        w == RowWidth(rs, moved[1])
    IN  <<moved[1], IF moved[2] > w THEN w ELSE moved[2]>>

\* the editor reads a key: it is in no Document call, the document is open and the
\* loop of run() has not been left
KeyRead ==
    /\ dpc = "idle" /\ pc = "idle"
    /\ ~should_quit
    /\ keys < MaxKeys
    /\ keys' = keys + 1

\* the variables no key but F1 touches
sessionVars == <<initialized, tx, rx, lang, pc, arg, calls, hoverRet, sent, deq,
                 wr, written, readVars, srvVars, lsp, dpc, callLimit, quitVars>>

\* Key::Char(c): insert, move_cursor(Key::Right), clear_floating
Key_Char(c) ==
    /\ KeyRead
    /\ LET doc == Document_insert(document_rows, dirty, cursor[2], cursor[1], c)
       IN  /\ document_rows' = doc.rows
           /\ dirty' = doc.dirty
           /\ rows' = join_rows(doc.rows)
           /\ cursor' = move_cursor(doc.rows, cursor[2], cursor[1], "Right")
    /\ floatings' = <<>>
    /\ UNCHANGED <<sessionVars, filename>>

\* Key::Delete: clear_floating, delete, clear_floating
Key_Delete ==
    /\ KeyRead
    /\ LET doc == Document_delete(document_rows, dirty, cursor[2], cursor[1])
       IN  /\ document_rows' = doc.rows
           /\ dirty' = doc.dirty
           /\ rows' = join_rows(doc.rows)
    /\ floatings' = <<>>
    /\ UNCHANGED <<sessionVars, filename, cursor>>

\* Key::Backspace: away from the origin move_cursor(Key::Left) and delete; clear_floating
Key_Backspace ==
    /\ KeyRead
    /\ IF cursor[2] > 0 \/ cursor[1] > 0
       THEN LET at == move_cursor(document_rows, cursor[2], cursor[1], "Left")
                doc == Document_delete(document_rows, dirty, at[2], at[1])
            IN  /\ cursor' = at
                /\ document_rows' = doc.rows
                /\ dirty' = doc.dirty
                /\ rows' = join_rows(doc.rows)
       ELSE UNCHANGED <<cursor, document_rows, dirty, rows>>
    /\ floatings' = <<>>
    /\ UNCHANGED <<sessionVars, filename>>

\* the name the "Save as: " prompt can bring
PromptedName == <<"/tmp/b", ".txt">>

\* Key::Ctrl('s') that saves and leaves the tooltip list as it is
Key_CtrlS_keep(named, wrote) ==
    /\ KeyRead
    /\ IF filename = <<>> /\ ~named
       THEN UNCHANGED <<filename, dirty>>
       ELSE /\ filename' = IF filename = <<>> THEN PromptedName ELSE filename
            /\ dirty' = IF wrote THEN FALSE ELSE dirty
    /\ UNCHANGED <<sessionVars, document_rows, rows, cursor, floatings>>

\* Key::Ctrl('s'): Editor::save, clear_floating.  Without a file name the prompt brings
\* one (named) or the save is aborted; wrote says whether Document::save could write
Key_CtrlS(named, wrote) ==
    /\ KeyRead
    /\ IF filename = <<>> /\ ~named
       THEN UNCHANGED <<filename, dirty>>
       ELSE /\ filename' = IF filename = <<>> THEN PromptedName ELSE filename
            /\ dirty' = IF wrote THEN FALSE ELSE dirty
    /\ floatings' = <<>>
    /\ UNCHANGED <<sessionVars, document_rows, rows, cursor>>

\* Key::Ctrl('q') that counts down to 0 before it quits a dirty document
Key_CtrlQ_to_zero ==
    /\ dpc = "idle" /\ pc = "idle"
    /\ ~should_quit
    /\ ctrlq' = Append(ctrlq, dirty)
    /\ IF ~dirty
       THEN should_quit' = TRUE /\ UNCHANGED quit_times
       ELSE IF quit_times = 0
       THEN should_quit' = TRUE /\ UNCHANGED quit_times
       ELSE quit_times' = quit_times - 1 /\ UNCHANGED should_quit
    /\ UNCHANGED <<connVars, wr, written, readVars, srvVars>>
    /\ UNCHANGED <<lsp, floatings, dpc, document_rows, dirty, callLimit, keys>>

\* Key::Ctrl('q'): a clean document quits; a dirty one quits when quit_times is 1 and
\* else takes one off quit_times
Key_CtrlQ ==
    /\ dpc = "idle" /\ pc = "idle"
    /\ ~should_quit
    /\ ctrlq' = Append(ctrlq, dirty)
    /\ IF ~dirty
       THEN should_quit' = TRUE /\ UNCHANGED quit_times
       ELSE IF quit_times = 1
       THEN should_quit' = TRUE /\ UNCHANGED quit_times
       ELSE quit_times' = quit_times - 1 /\ UNCHANGED should_quit
    /\ UNCHANGED <<connVars, wr, written, readVars, srvVars>>
    /\ UNCHANGED <<lsp, floatings, dpc, document_rows, dirty, callLimit, keys>>

\* an arrow key, PageUp, PageDown, End or Home: move_cursor
Key_Move(key) ==
    /\ KeyRead
    /\ cursor' = move_cursor(document_rows, cursor[2], cursor[1], key)
    /\ UNCHANGED <<sessionVars, filename, document_rows, dirty, rows, floatings>>

(***************************************************************************)
(* The specification: any sequence of init() and hover() calls on one      *)
(* Connector, interleaved with the two pumps and the subprocess.           *)
(***************************************************************************)
Next ==
    \/ init_send_initialize(rows) /\ UNCHANGED docVars
    \/ init_recv /\ UNCHANGED docVars
    \/ init_send_initialized /\ UNCHANGED docVars
    \/ init_send_didOpen /\ UNCHANGED docVars
    \/ hover_send(cursor[1], cursor[2]) /\ UNCHANGED docVars
    \/ hover_recv /\ UNCHANGED docVars
    \/ write_pump /\ UNCHANGED docVars
    \/ read_pump_read_line /\ UNCHANGED docVars
    \/ read_pump_read_exact /\ UNCHANGED docVars
    \/ \E shape \in Shapes : SrvReply(shape, "plain", FALSE) /\ UNCHANGED docVars
    \/ \E w \in Wires : SrvReply("markup", w[1], w[2]) /\ UNCHANGED docVars
    \/ \E u \in Unsolicited : SrvUnsolicited(u[1], u[2], u[3]) /\ UNCHANGED docVars
    \/ SrvFlush /\ UNCHANGED docVars
    \/ SrvExit /\ UNCHANGED docVars

Spec == Init /\ [][Next]_vars

(***************************************************************************)
(* The specification of the Document: a file is opened, then hover         *)
(* triggers come at the cursor; the Connector is driven by Document::hover *)
(* alone.                                                                  *)
(***************************************************************************)
\* before Document::open
DocInit ==
    /\ initialized = FALSE
    /\ tx = <<>> /\ rx = <<>>
    /\ \E d \in Documents \cup {PlainTextDocument} :
          filename = d.filename /\ rows = d.rows /\ cursor = d.cursor
    /\ lang = <<>>
    /\ pc = "idle" /\ arg = <<>> /\ calls = 0
    /\ hoverRet = NoHover
    /\ sent = <<>> /\ deq = <<>>
    /\ wr = "run" /\ written = <<>>
    /\ rd = "line" /\ acc = <<>> /\ need = 0 /\ rbuf = <<>> /\ pipe = <<>>
    /\ srv = "up" /\ srvPos = 0 /\ srvPending = <<>> /\ emitted = <<>>
    /\ lsp = "None" /\ floatings = <<>> /\ dpc = "closed"
    /\ document_rows = <<>> /\ dirty = FALSE /\ callLimit = MaxCalls /\ keys = 0
    /\ quit_times = QUIT_TIMES /\ should_quit = FALSE /\ ctrlq = <<>>

DocNext ==
    \/ \E readable, spawns \in BOOLEAN : Document_open(readable, spawns)
    \/ Document_hover(cursor[2], cursor[1])
    \/ Document_hover_after_init(cursor[2], cursor[1])
    \/ Document_hover_match(cursor[2], cursor[1])
    \/ init_recv /\ UNCHANGED docVars
    \/ init_send_initialized /\ UNCHANGED docVars
    \/ init_send_didOpen /\ UNCHANGED docVars
    \/ hover_recv /\ UNCHANGED docVars
    \/ lsp = "Some" /\ write_pump /\ UNCHANGED docVars
    \/ lsp = "Some" /\ read_pump_read_line /\ UNCHANGED docVars
    \/ lsp = "Some" /\ read_pump_read_exact /\ UNCHANGED docVars
    \/ \E shape \in Shapes \cup MarkupShapes :
          lsp = "Some" /\ SrvReply(shape, "plain", FALSE) /\ UNCHANGED docVars
    \/ \E u \in Unsolicited :
          lsp = "Some" /\ SrvUnsolicited(u[1], u[2], u[3]) /\ UNCHANGED docVars
    \/ lsp = "Some" /\ SrvExit /\ UNCHANGED docVars

DocSpec == DocInit /\ [][DocNext]_vars

(***************************************************************************)
(* The specification of the editor: a file is opened, then keys are read.  *)
(* The subprocess answers requests, one frame each, or exits.              *)
(***************************************************************************)
\* the subprocess answers the next request with one reply frame, written whole
SrvAnswer(shape) ==
    /\ srv = "up"
    /\ srvPending = <<>>
    /\ LET n == NextRequest
           req == RequestOf(written[n])
       IN  /\ n # 0
           /\ shape \in ReplyShapes(req.method)
           /\ srvPos' = n
           /\ Emit("plain", Body([id |-> req.id, re |-> n, shape |-> shape]), FALSE)
    /\ UNCHANGED <<connVars, wr, written, rd, acc, need, rbuf, srv>>

\* the reply shapes the subprocess of the editor runs chooses from
EditorShapes == {"caps", "markup", "scalar"}

\* the files the editor is started on: one with a language server, one without
EditorDocuments ==
    {d \in Documents \cup {PlainTextDocument} : d.filename[Len(d.filename)] \in {".rs", ".txt"}}

\* before Editor::default: the cursor is Position::default()
EditorInitOn(documents) ==
    /\ initialized = FALSE
    /\ tx = <<>> /\ rx = <<>>
    /\ \E d \in documents : filename = d.filename /\ rows = d.rows
    /\ cursor = <<0, 0>>
    /\ lang = <<>>
    /\ pc = "idle" /\ arg = <<>> /\ calls = 0
    /\ hoverRet = NoHover
    /\ sent = <<>> /\ deq = <<>>
    /\ wr = "run" /\ written = <<>>
    /\ rd = "line" /\ acc = <<>> /\ need = 0 /\ rbuf = <<>> /\ pipe = <<>>
    /\ srv = "up" /\ srvPos = 0 /\ srvPending = <<>> /\ emitted = <<>>
    /\ lsp = "None" /\ floatings = <<>> /\ dpc = "closed"
    /\ document_rows = <<>> /\ dirty = FALSE /\ callLimit = MaxCalls + 1 /\ keys = 0
    /\ quit_times = QUIT_TIMES /\ should_quit = FALSE /\ ctrlq = <<>>

EditorNext ==
    \/ \E readable, spawns \in BOOLEAN : Document_open(readable, spawns)
    \/ \E c \in EditorChars : Key_Char(c)
    \/ Key_Delete
    \/ Key_Backspace
    \/ \E named, wrote \in BOOLEAN : Key_CtrlS(named, wrote)
    \/ \E key \in MoveKeys : Key_Move(key)
    \/ Document_hover(cursor[2], cursor[1])
    \/ Document_hover_after_init(cursor[2], cursor[1])
    \/ Document_hover_match(cursor[2], cursor[1])
    \/ init_recv /\ UNCHANGED docVars
    \/ init_send_initialized /\ UNCHANGED docVars
    \/ init_send_didOpen /\ UNCHANGED docVars
    \/ hover_recv /\ UNCHANGED docVars
    \/ lsp = "Some" /\ write_pump /\ UNCHANGED docVars
    \/ lsp = "Some" /\ read_pump_read_line /\ UNCHANGED docVars
    \/ lsp = "Some" /\ read_pump_read_exact /\ UNCHANGED docVars
    \/ \E shape \in EditorShapes : lsp = "Some" /\ SrvAnswer(shape) /\ UNCHANGED docVars
    \/ lsp = "Some" /\ SrvExit /\ UNCHANGED docVars

EditorInit == EditorInitOn(EditorDocuments)

EditorSpec == EditorInit /\ [][EditorNext]_vars

\* the editor started on the file whose path has a space in it
PathEditorInit == EditorInitOn({SpacedPathDocument})

PathEditorSpec == PathEditorInit /\ [][EditorNext]_vars

(***************************************************************************)
(* The specification of the editor with Ctrl-Q among its keys; run()       *)
(* leaves its loop once should_quit is set.                                *)
(***************************************************************************)
\* before Editor::default, for a run with one hover trigger
QuitInit ==
    /\ initialized = FALSE
    /\ tx = <<>> /\ rx = <<>>
    /\ \E d \in EditorDocuments : filename = d.filename /\ rows = d.rows
    /\ cursor = <<0, 0>>
    /\ lang = <<>>
    /\ pc = "idle" /\ arg = <<>> /\ calls = 0
    /\ hoverRet = NoHover
    /\ sent = <<>> /\ deq = <<>>
    /\ wr = "run" /\ written = <<>>
    /\ rd = "line" /\ acc = <<>> /\ need = 0 /\ rbuf = <<>> /\ pipe = <<>>
    /\ srv = "up" /\ srvPos = 0 /\ srvPending = <<>> /\ emitted = <<>>
    /\ lsp = "None" /\ floatings = <<>> /\ dpc = "closed"
    /\ document_rows = <<>> /\ dirty = FALSE /\ callLimit = MaxCalls /\ keys = 0
    /\ quit_times = QUIT_TIMES /\ should_quit = FALSE /\ ctrlq = <<>>

QuitNext ==
    \/ ~should_quit /\ EditorNext
    \/ Key_CtrlQ

QuitSpec == QuitInit /\ [][QuitNext]_vars


\* the steps of the calling thread inside a call, and of the two pump threads: each
\* thread keeps being scheduled, the subprocess owes nothing
Caller == (init_recv \/ init_send_initialized \/ init_send_didOpen \/ hover_recv)
              /\ UNCHANGED docVars

WritePump == write_pump /\ UNCHANGED docVars

ReadPump == (read_pump_read_line \/ read_pump_read_exact) /\ UNCHANGED docVars

FairSpec == Spec /\ WF_vars(Caller) /\ WF_vars(WritePump) /\ WF_vars(ReadPump)

(***************************************************************************)
(* The specification of a Connector's life: calls on it, then its drop.    *)
(* LspConnector has no Drop of its own: its fields are dropped, the sender *)
(* and the receiver with them, and the Child handle, which kills nothing.  *)
(***************************************************************************)
\* the Connector is dropped between two calls
LspConnector_drop ==
    /\ lsp = "Some"
    /\ pc = "idle"
    /\ lsp' = "Dropped"
    /\ UNCHANGED <<connVars, wr, written, readVars, srvVars>>
    /\ UNCHANGED <<floatings, dpc, editVars>>

LifeNext ==
    \/ lsp = "Some" /\ init_send_initialize(rows) /\ UNCHANGED docVars
    \/ init_recv /\ UNCHANGED docVars
    \/ init_send_initialized /\ UNCHANGED docVars
    \/ init_send_didOpen /\ UNCHANGED docVars
    \/ lsp = "Some" /\ hover_send(cursor[1], cursor[2]) /\ UNCHANGED docVars
    \/ hover_recv /\ UNCHANGED docVars
    \/ LspConnector_drop
    \/ write_pump /\ UNCHANGED docVars
    \/ write_pump_disconnected /\ UNCHANGED docVars
    \/ read_pump_read_line /\ UNCHANGED docVars
    \/ read_pump_read_exact /\ UNCHANGED docVars
    \/ \E shape \in EditorShapes : SrvAnswer(shape) /\ UNCHANGED docVars
    \/ SrvExit /\ UNCHANGED docVars

LifeSpec == Init /\ [][LifeNext]_vars

(***************************************************************************)
(* The specification of framing: the subprocess answers requests with      *)
(* frames that have the Content-Length header alone, and writes each whole *)
(* or in two pieces, the first ending with the Content-Length line.        *)
(***************************************************************************)
FrameNext ==
    \/ init_send_initialize(rows) /\ UNCHANGED docVars
    \/ init_recv /\ UNCHANGED docVars
    \/ init_send_initialized /\ UNCHANGED docVars
    \/ init_send_didOpen /\ UNCHANGED docVars
    \/ hover_send(cursor[1], cursor[2]) /\ UNCHANGED docVars
    \/ hover_recv /\ UNCHANGED docVars
    \/ write_pump /\ UNCHANGED docVars
    \/ read_pump_read_line /\ UNCHANGED docVars
    \/ read_pump_read_exact /\ UNCHANGED docVars
    \/ \E shape \in EditorShapes, split \in BOOLEAN :
          SrvReply(shape, "plain", split) /\ UNCHANGED docVars
    \/ SrvFlush /\ UNCHANGED docVars

FrameSpec == Init /\ [][FrameNext]_vars

(***************************************************************************)
(* Properties.                                                             *)
(***************************************************************************)
Method(payload) == RequestOf(payload).method

IsRequest(payload) == RequestOf(payload).id # NoId

Count(method) == Cardinality({i \in 1..Len(sent) : Method(sent[i]) = method})

IsPrefix(a, b) == Len(a) <= Len(b) /\ SubSeq(b, 1, Len(a)) = a

\* the messages recv() returned, in order
Dequeued == [i \in 1..Len(deq) |-> deq[i].msg]

\* C1: init() is idempotent on the Connector: however often it is called, one
\* handshake is enqueued in total (one initialize, one initialized, one didOpen)
\* and the state is Initialized.
C1_InitIdempotent ==
    initialized =>
        /\ Count("initialize") = 1
        /\ Count("initialized") = 1
        /\ Count("textDocument/didOpen") = 1

\* C2: the handshake is enqueued in order: initialize carries id 0; initialized comes
\* right after an initialize for which recv() has returned a message; didOpen comes
\* right after initialized; the state is Initialized only once a didOpen is enqueued.
C2_HandshakeOrder ==
    /\ \A j \in 1..Len(sent) :
        /\ Method(sent[j]) = "initialize" => RequestOf(sent[j]).id = 0
        /\ Method(sent[j]) = "initialized" =>
              /\ j > 1
              /\ Method(sent[j - 1]) = "initialize"
              /\ \E k \in 1..Len(deq) : deq[k].for = j - 1
        /\ Method(sent[j]) = "textDocument/didOpen" =>
              /\ j > 1
              /\ Method(sent[j - 1]) = "initialized"
    /\ initialized => Count("textDocument/didOpen") >= 1
    /\ pc \in {"init_notify", "init_open"} =>
          Method(sent[Len(sent)]) = (IF pc = "init_notify" THEN "initialize" ELSE "initialized")

\* C2 witness: a whole handshake has been enqueued and the state is Initialized
C2_Witness ==
    /\ initialized
    /\ Len(sent) = 3
    /\ Method(sent[3]) = "textDocument/didOpen"

\* C3: when the inbound channel is closed before a reply arrives, the pending init()
\* or hover() gives up without panicking the calling thread.
C3_DeadTransportAbsorbed == pc # "panic_recv"

\* C4: no request is enqueued while the reply to an earlier request has not been
\* consumed from the inbound channel.
C4_OneInFlight ==
    \A j \in 1..Len(sent) : \A i \in 1..(j - 1) :
        IsRequest(sent[i]) /\ IsRequest(sent[j]) =>
            \E k \in 1..Len(deq) : ParseResponse(deq[k].msg).re = i

\* C5: a reply whose id is not the id of the request being waited for is never taken
\* as the answer to that request.
C5_StrayReplyIgnored ==
    \A k \in 1..Len(deq) :
        LET res == ParseResponse(deq[k].msg)
        IN  res.ok /\ res.id # NoId => res.id = RequestOf(sent[deq[k].for]).id

\* C6: the state never goes from Initialized back to Uninitialized, and it becomes
\* Initialized only in the last step of a handshake, the one that enqueues didOpen.
C6_InitializedOnce ==
    [][/\ initialized => initialized'
       /\ ~initialized /\ initialized' =>
             /\ pc = "init_open"
             /\ Len(sent') = Len(sent) + 1
             /\ Method(sent'[Len(sent')]) = "textDocument/didOpen"]_vars

\* C6 witness: Initialized, and afterwards a hover() has run into a dead transport
C6_Witness ==
    /\ initialized
    /\ pc = "idle"
    /\ rd = "dead"
    /\ hoverRet # NoHover

\* C7: what the write pump writes is what the Session enqueued, in order, and what
\* the Session dequeues is a prefix of the bodies of the frames the subprocess emitted.
C7_OrderPreserved ==
    /\ IsPrefix(written, sent)
    /\ IsPrefix(Dequeued, emitted)

\* the replies hover() must answer with None
BadReply(raw) ==
    LET res == ParseResponse(raw)
    IN  \/ ~res.ok
        \/ res.error = "Some"
        \/ res.result = "None"
        \/ res.result \in {"n42", "caps"}

\* C8: hover() returns None, and does not panic, when what it consumed as the reply
\* is unparseable, an error reply, a reply with a null or absent result, or a result
\* that is no hover (the number 42).
C8_BadReplyGivesNone ==
    [][pc = "hover_recv" /\ pc' # "hover_recv" =>
          /\ pc' = "idle"
          /\ BadReply(hoverRet'.raw) => hoverRet'.ret = "None"]_vars

\* C8 witness: hover() consumed a reply with result 42 and returned None
C8_Witness ==
    /\ pc = "idle"
    /\ hoverRet.raw = Body([id |-> 1, re |-> 1, shape |-> "n42"])
    /\ hoverRet.ret = "None"

\* C9: no textDocument/hover request is enqueued while the state is Uninitialized.
C9_NoHoverBeforeInit ==
    ~initialized => Count("textDocument/hover") = 0

\* the header of a payload declares the byte length of its body
WellFramed(payload) ==
    /\ payload[1] = "Content-Length: "
    /\ \E k \in 2..Len(payload) :
          /\ payload[k] = "\r\n\r\n"
          /\ parse_usize(SubSeq(payload, 2, k - 1)) = StrLen(SubSeq(payload, k + 1, Len(payload)))

\* C10: every payload enqueued is "Content-Length: N", CR LF CR LF, body, with N the
\* number of UTF-8 bytes of the body: a step only appends to what has been enqueued,
\* and each payload it appends is framed so.
C10_ContentLengthIsByteLength ==
    [][/\ IsPrefix(sent, sent')
       /\ \A i \in (Len(sent) + 1)..Len(sent') : WellFramed(sent'[i])]_vars

\* C10 witness: a didOpen whose text has multi-byte characters has been enqueued
C10_Witness ==
    \E i \in 1..Len(sent) :
        /\ Method(sent[i]) = "textDocument/didOpen"
        /\ \E k \in 1..Len(sent[i]) : sent[i][k] = "U+20AC"
        /\ StrChars(sent[i]) # StrLen(sent[i])

\* the calling thread is polling in recv()
Waiting == {"init_recv", "hover_recv"}

\* C11: once the subprocess's output has ended, the read pump terminates (which closes
\* the inbound queue), and a caller waiting in init() or hover() stops waiting.
C11_StreamEndClosesQueue ==
    /\ Eof ~> (rd = "dead")
    /\ (Eof /\ pc \in Waiting) ~> (pc \notin Waiting)

\* C12: once the write pump has died, an init() or hover() call that enqueues a message
\* does not panic the calling thread.
C12_WritePumpDeathAbsorbed == wr = "dead" => pc # "panic_send"

\* the messages the read pump has enqueued inbound, in order
Inbound == Dequeued \o rx

\* C13: the read pump decodes every frame to exactly its body: the i-th message it
\* enqueues is the body of the i-th frame the subprocess emitted, whatever other header
\* lines come with the frame.
C13_FramesDecodeToBodies ==
    \A i \in 1..Len(Inbound) : i <= Len(emitted) /\ Inbound[i] = emitted[i]

\* the concatenation of a sequence of sequences
RECURSIVE Flatten(_)
Flatten(ss) == IF ss = <<>> THEN <<>> ELSE Head(ss) \o Flatten(Tail(ss))

\* the text of a markup value between its line endings, in order
TextChunks(v) == SelectSeq(v, LAMBDA c : c \notin {"\r", "\n"})

\* C14: after a completed handshake, when the message hover() took as its reply holds a
\* markup block, the tooltip the Document makes has the lines of the value in their
\* order, none lost, reordered or duplicated, no blank line among them, and a height
\* equal to their number; the value foo, newline, bar gives the lines foo and bar.
C14_MarkupLinesInOrder ==
    [][(dpc = "hover" /\ dpc' = "idle" /\ initialized /\ hoverRet.ret = "Markup") =>
          LET v == MarkupValue(ParseResponse(hoverRet.raw).result)
          IN  /\ Len(floatings') = 1
              /\ Flatten(floatings'[1].msg) = TextChunks(v)
              /\ \A i \in 1..Len(floatings'[1].msg) : floatings'[1].msg[i] # <<>>
              /\ floatings'[1].height = Len(floatings'[1].msg)
              /\ v = <<"foo", "\n", "bar">> => floatings'[1].msg = << <<"foo">>, <<"bar">> >>
      ]_vars

\* C14 witness: after a handshake, a hover reply whose value has a CR LF ending, a blank
\* line and a final newline has become a tooltip of two lines
C14_Witness ==
    /\ initialized
    /\ dpc = "idle"
    /\ hoverRet.ret = "Markup"
    /\ ParseResponse(hoverRet.raw).result = "markup_lines"
    /\ Len(floatings) = 1
    /\ floatings[1].msg = << <<"foo">>, <<"bar">> >>
    /\ floatings[1].height = 2

\* init() has dequeued a success reply to initialize and has not returned yet
InitGotSuccess ==
    /\ pc \in {"init_notify", "init_open"}
    /\ ParseResponse(deq[Len(deq)].msg).shape = "caps"

\* C15: an init() that has dequeued a success reply to initialize goes on to return:
\* no step stops it, and when it returns initialized and didOpen have been sent and the
\* state is Initialized.
C15_InitReturnsOnSuccess ==
    [][InitGotSuccess =>
          /\ pc' \in {"init_notify", "init_open", "idle"}
          /\ pc' = "idle" =>
                /\ initialized'
                /\ Method(sent'[Len(sent')]) = "textDocument/didOpen"
                /\ Method(sent'[Len(sent') - 1]) = "initialized"
      ]_vars

\* C16: no exchange has a timeout: a step takes init() or hover() out of its wait only
\* by dequeuing an inbound message or on finding the inbound queue closed, and while
\* the subprocess has emitted no frame and has not exited the call stays in its wait.
C16_NoTimeout ==
    [][(pc \in Waiting) =>
          /\ (pc' # pc) => (Len(deq') = Len(deq) + 1 \/ (rx = <<>> /\ rd = "dead"))
          /\ (emitted = <<>> /\ srv = "up") => (pc' = pc)
      ]_vars

\* C16 witness: hover() waits, its request written to a subprocess that is up and has
\* emitted nothing
C16_Witness ==
    /\ pc = "hover_recv"
    /\ emitted = <<>>
    /\ srv = "up"
    /\ tx = <<>>
    /\ Len(written) = Len(sent)
    /\ srvPos = 0

\* C17: constructing a Connector sends nothing: until init() or hover() is called the
\* state is Uninitialized, the outbound queue is empty and nothing has been enqueued or
\* written to the subprocess.
C17_ConstructSendsNothing ==
    calls = 0 => ~initialized /\ tx = <<>> /\ sent = <<>> /\ written = <<>>

\* C17 witness: no call made yet, while the subprocess has already emitted a frame that
\* the read pump has enqueued inbound
C17_Witness ==
    /\ calls = 0
    /\ pc = "idle"
    /\ rx # <<>>
    /\ wr = "run"

\* C18: a file that can be read opens, with no Connector when none can be started, and
\* a hover trigger on a Document without Connector changes nothing.
C18_SpawnFailureNonFatal ==
    /\ dpc # "panic_open"
    /\ lsp = "None" => floatings = <<>> /\ pc = "idle" /\ sent = <<>>

\* the result of the message the last hover() took as its reply
HoverReplyResult == ParseResponse(hoverRet.raw).result

\* C19: a hover trigger yields hover text only for a reply whose contents is a markup
\* block: the tooltips change only then, and a marked string or an array of them leaves
\* them as an empty reply does, unchanged.
C19_OnlyMarkupYieldsText ==
    [][(dpc = "hover" /\ dpc' = "idle") =>
          /\ (floatings' # floatings) => (HoverReplyResult \in MarkupShapes)
          /\ (HoverReplyResult \in {"scalar", "array", "null", "None"}) =>
                 (floatings' = floatings)
          /\ (HoverReplyResult = "markup") =>
                 (Len(floatings') = 1 /\ floatings'[1].msg # <<>>)
      ]_vars

\* C19 witness: a hover trigger has ended on a reply whose contents is a marked string,
\* and there is no tooltip
C19_Witness ==
    /\ dpc = "idle"
    /\ hoverRet.ret = "Scalar"
    /\ HoverReplyResult = "scalar"
    /\ ParseResponse(hoverRet.raw).id = 1
    /\ floatings = <<>>

\* C20: an outgoing message carries an id exactly when it is a request: initialize
\* carries id 0, every textDocument/hover the one id 1, and initialized and
\* textDocument/didOpen carry none.
C20_IdIffRequest ==
    \A i \in 1..Len(sent) :
        LET m == RequestOf(sent[i])
        IN  /\ m.method \in {"initialize", "initialized", "textDocument/didOpen",
                             "textDocument/hover"}
            /\ m.method = "initialize" => m.id = 0
            /\ m.method = "textDocument/hover" => m.id = 1
            /\ m.method \in {"initialized", "textDocument/didOpen"} => m.id = NoId

\* C20 witness: a handshake and a hover request have been enqueued
C20_Witness ==
    /\ Len(sent) = 4
    /\ Method(sent[1]) = "initialize"
    /\ Method(sent[2]) = "initialized"
    /\ Method(sent[3]) = "textDocument/didOpen"
    /\ Method(sent[4]) = "textDocument/hover"

\* C21: the document text is sent to the subprocess once: at most one didOpen is ever
\* enqueued, and once the state is Initialized no key of the editor (insertion, Delete,
\* Backspace, Ctrl-S, cursor move, F1) enqueues anything but textDocument/hover requests.
C21_TextSentOnce ==
    [][(initialized =>
            /\ IsPrefix(sent, sent')
            /\ \A i \in (Len(sent) + 1)..Len(sent') : Method(sent'[i]) = "textDocument/hover")
       /\ Cardinality({i \in 1..Len(sent') : Method(sent'[i]) = "textDocument/didOpen"}) <= 1
      ]_vars

\* a second hover request is enqueued after the document was edited since the handshake
C21_Witness ==
    /\ initialized
    /\ rows # arg
    /\ dirty
    /\ Count("textDocument/hover") = 2
    /\ Count("textDocument/didOpen") = 1

\* the client capabilities an initialize request declares: the fields that are Some
DeclaredCapabilities(params) ==
    UNION {{<<group, c>> : c \in DOMAIN params[group]} : group \in DOMAIN params}

\* C22: every initialize request enqueued declares hover, with plain text as its content
\* format, and no other client capability.
C22_OnlyHoverDeclared ==
    \A i \in 1..Len(sent) :
        Method(sent[i]) = "initialize" =>
            /\ sent[i] = Payload(InitializeRequest)
            /\ InitializeRequest.params.text_document.hover.content_format = <<"plaintext">>
            /\ DeclaredCapabilities(InitializeRequest.params) = {<<"text_document", "hover">>}

\* C23: no shutdown or exit message is ever enqueued, and once the Connector is dropped,
\* its handle on the subprocess released with it, the subprocess is terminated.
C23_DropTerminatesSubprocess ==
    /\ \A i \in 1..Len(sent) : Method(sent[i]) \notin {"shutdown", "exit"}
    /\ lsp = "Dropped" => srv = "exited"

\* what belongs to the calling thread, and what to the write pump
callerVars == <<initialized, pc, arg, calls, hoverRet, sent, deq>>
writeVars == <<wr, written>>

\* C24: the threads share the two queues and nothing else.  A step that enqueues inbound
\* or takes bytes of the subprocess's output is the read pump's: it moves neither the
\* calling thread nor the write pump.  A step that dequeues outbound or writes to the
\* subprocess's input is the write pump's: it does both at once, with the payload at the
\* head of the queue, and moves neither the calling thread nor the read pump.  A step
\* that dequeues inbound is the calling thread's: it moves neither pump.
C24_QueuesOnlyShared ==
    [][(/\ (Len(rx') > Len(rx) \/ rbuf' # rbuf \/ ~IsPrefix(pipe, pipe')) =>
              /\ callerVars' = callerVars /\ writeVars' = writeVars /\ tx' = tx
              /\ IsPrefix(rx, rx')
        /\ (Len(tx') < Len(tx) \/ written' # written) =>
              /\ tx # <<>> /\ tx' = Tail(tx)
              /\ written' \in {written, Append(written, Head(tx))}
              /\ callerVars' = callerVars /\ readVars' = readVars /\ rx' = rx
        /\ (Len(rx') < Len(rx)) =>
              /\ rx' = Tail(rx)
              /\ Len(deq') = Len(deq) + 1 /\ deq'[Len(deq')].msg = Head(rx)
              /\ writeVars' = writeVars /\ readVars' = readVars
        /\ (Len(tx') > Len(tx)) =>
              /\ tx' = Append(tx, sent'[Len(sent')]) /\ Len(sent') = Len(sent) + 1
              /\ writeVars' = writeVars /\ readVars' = readVars)
      ]_vars

\* a handshake and a hover have gone through both queues and both pumps
C24_Witness ==
    /\ Len(written) = 4
    /\ Len(deq) = 2
    /\ hoverRet.ret = "Markup"
    /\ pc = "idle"

\* C25: the message a hover() call takes as its reply, and derives its result from, is
\* the reply to that call's own request: no frame that answers nothing, and no reply to
\* an earlier request.
C25_HoverFromOwnReply ==
    \A k \in 1..Len(deq) :
        Method(sent[deq[k].for]) = "textDocument/hover" =>
            ParseResponse(deq[k].msg).re = deq[k].for

\* a success reply: it parses, carries a result and no error
SuccessReply(raw) ==
    LET res == ParseResponse(raw)
    IN  res.ok /\ res.result # "None" /\ res.error = "None"

\* C26: an initialized notification is enqueued, and the state is Initialized, only when
\* the message init() consumed as the reply to its initialize request is a success reply.
C26_HandshakeOnlyOnSuccess ==
    /\ \A j \in 1..Len(sent) :
          Method(sent[j]) \in {"initialized", "textDocument/didOpen"} =>
              \E k \in 1..Len(deq) :
                  /\ deq[k].for < j
                  /\ Method(sent[deq[k].for]) = "initialize"
                  /\ SuccessReply(deq[k].msg)
    /\ initialized =>
          \E k \in 1..Len(deq) :
              Method(sent[deq[k].for]) = "initialize" /\ SuccessReply(deq[k].msg)

\* C27: however the bytes of well-formed frames are split across the subprocess's writes,
\* the messages enqueued inbound are the bodies of the frames emitted, in order, and when
\* every byte written has been read none is missing.
C27_SplitIndependent ==
    /\ IsPrefix(Inbound, emitted)
    /\ (rd = "line" /\ acc = <<>> /\ rbuf = <<>> /\ pipe = <<>> /\ srvPending = <<>>) =>
          Inbound = emitted

\* the method of the j-th payload of a Document that has made one handshake, then hovers
HandshakeThenHovers(j) ==
    CASE j = 1 -> "initialize"
      [] j = 2 -> "initialized"
      [] j = 3 -> "textDocument/didOpen"
      [] OTHER -> "textDocument/hover"

\* C28: whatever keys the editor has processed, what the Document has enqueued is one
\* handshake, begun by the first hover trigger on a spawned Connector, followed by hover
\* requests alone: every hover request comes after the didOpen of that handshake.
C28_OneHandshakeThenHovers ==
    /\ \A j \in 1..Len(sent) : Method(sent[j]) = HandshakeThenHovers(j)
    /\ (calls > 0) => (Len(sent) > 0)

\* two hover requests enqueued, the document edited before the first and after it
C28_Witness ==
    /\ Len(sent) = 5
    /\ arg # <<"a">>
    /\ rows # arg
    /\ keys = MaxKeys

\* C29: while a call waits in recv(): with a message queued, recv() returns the one at
\* the head, which leaves the queue, also when the read pump is dead; with the queue
\* empty and the read pump alive, the call stays in recv(); the call meets a transport
\* failure (init() panics, hover() gets nothing to decode) only with the queue empty and
\* the read pump dead.  No message leaves the queue but the head, handed to the caller.
C29_RecvReturnsQueued ==
    [][((pc \in Waiting) =>
            /\ (rx # <<>> /\ pc' # pc) =>
                  /\ rx' = Tail(rx)
                  /\ deq' = Append(deq, [msg |-> Head(rx), for |-> Len(sent)])
                  /\ pc' # "panic_recv"
            /\ (rx = <<>> /\ rd # "dead") => pc' = pc
            /\ (pc' # pc /\ deq' = deq) => (rx = <<>> /\ rd = "dead"))
       /\ (Len(rx') < Len(rx) => rx' = Tail(rx) /\ deq'[Len(deq')].msg = Head(rx))
      ]_vars

\* a call is in recv() with a message queued and the read pump dead
C29_Witness ==
    /\ pc \in Waiting
    /\ rd = "dead"
    /\ rx # <<>>

\* nothing is left to happen for a waiting call: every payload is written, every request
\* answered, every byte of the answers read, and the inbound queue is empty
NothingPending ==
    /\ tx = <<>>
    /\ NextRequest = 0
    /\ srvPending = <<>> /\ pipe = <<>> /\ rbuf = <<>>
    /\ rx = <<>>

\* C30: with a subprocess that answers every request with one reply frame and emits
\* nothing else, no call is left waiting once all there is to read has been read, so that
\* with the pumps scheduled fairly it returns; and between calls the inbound queue is empty.
C30_CallsReturn ==
    /\ (pc \in Waiting) => ~NothingPending
    /\ (pc = "idle") => (rx = <<>>)

\* the tokens of a payload between the token open and the next token close
Field(payload, open, close) ==
    LET i == CHOOSE k \in 1..Len(payload) : payload[k] = open
        j == CHOOSE k \in (i + 1)..Len(payload) :
                 payload[k] = close /\ \A m \in (i + 1)..(k - 1) : payload[m] # close
    IN  SubSeq(payload, i + 1, j - 1)

\* the rows with a CR LF between each two of them
CrlfJoined(rs) ==
    Flatten([i \in 1..(2 * Len(rs) - 1) |-> IF i % 2 = 1 THEN rs[(i + 1) \div 2] ELSE CRLF])

\* a step enqueues a didOpen with version 0, the language identifier and the text given
\* to init(), and uri; a hover request it enqueues has uri; and the text given to init()
\* is the rows of the Document joined with CR LF as the hover trigger finds them
DidOpenStep(uri) ==
    /\ (pc = "idle" /\ pc' = "init_recv") => (arg' = CrlfJoined(document_rows))
    /\ \A i \in (Len(sent) + 1)..Len(sent') :
          /\ Method(sent'[i]) = "textDocument/didOpen" =>
                /\ Field(sent'[i], "{\"textDocument\":{\"languageId\":\"", "\",\"text\":\"")
                      = JsonEscape(lang)
                /\ Field(sent'[i], "\",\"text\":\"", "\",\"uri\":\"") = JsonEscape(arg)
                /\ Field(sent'[i], "\",\"uri\":\"", "\",\"version\":") = uri
                /\ Field(sent'[i], "\",\"version\":", "}}") = <<"0">>
          /\ Method(sent'[i]) = "textDocument/hover" =>
                Field(sent'[i], "},\"textDocument\":{\"uri\":\"", "\"}}") = uri

C32_LineIsRowCharacterIsColumn ==
    [][\A i \in (Len(sent) + 1)..Len(sent') :
          Method(sent'[i]) = "textDocument/hover" =>
              /\ Field(sent'[i], ",\"line\":", "},\"textDocument\":{\"uri\":\"")
                    = Decimal(cursor[1])
              /\ Field(sent'[i], "{\"position\":{\"character\":", ",\"line\":")
                    = Decimal(cursor[2])
      ]_vars

\* a hover request is out for a cursor whose row and column differ
C32_Witness ==
    /\ pc = "hover_recv"
    /\ cursor[1] # cursor[2]
    /\ Method(sent[Len(sent)]) = "textDocument/hover"

\* the steps of one hover trigger: from the key to the end of Document::hover
InHoverTrigger == dpc \in {"init", "hover"} \/ dpc' \in {"init", "hover"}

\* C33: a hover trigger changes neither the rows nor the dirty flag, and it changes the
\* tooltip list only when lsp.hover returned markup contents, which then make the one
\* tooltip; without a Connector, on None and on scalar or array contents the list stays.
C33_OnlyMarkupReplacesTooltip ==
    [][/\ (lsp' # "Some" => dpc' \notin {"init", "hover"} /\ floatings' = <<>>)
       /\ InHoverTrigger =>
          /\ document_rows' = document_rows /\ rows' = rows /\ dirty' = dirty
          /\ (floatings' # floatings =>
                 dpc = "hover" /\ dpc' = "idle" /\ lsp = "Some" /\ hoverRet.ret = "Markup")
          /\ (dpc = "hover" /\ dpc' = "idle" /\ hoverRet.ret = "Markup" =>
                 /\ Len(floatings') = 1
                 /\ floatings'[1].msg
                       = NonEmptyLines(lines(MarkupValue(ParseResponse(hoverRet.raw).result))))
      ]_vars

\* a trigger that got scalar contents or nothing has ended with the tooltip of an
\* earlier trigger still in the list
C33_Witness ==
    /\ dpc = "idle"
    /\ hoverRet.ret \in {"Scalar", "None"}
    /\ floatings # <<>>

\* C34: the Document never holds more than one floating tooltip.
C34_AtMostOneTooltip == Len(floatings) <= 1

\* a second hover trigger got markup while the tooltip of the first was in the list
C34_Witness ==
    /\ dpc = "idle"
    /\ Count("textDocument/hover") = 2
    /\ hoverRet.ret = "Markup"
    /\ Len(deq) >= 3
    /\ HoverResult(deq[Len(deq) - 1].msg) = "Markup"
    /\ Len(floatings) = 1

\* C35: once a character key, Delete, Backspace or Ctrl-S is processed the Document has
\* no floating tooltip; a cursor-movement key leaves the tooltip list as it was.
C35_EditKeysClearMoveKeysKeep ==
    [][/\ ( \/ \E c \in EditorChars : Key_Char(c)
            \/ Key_Delete
            \/ Key_Backspace
            \/ \E named, wrote \in BOOLEAN : Key_CtrlS(named, wrote) ) => floatings' = <<>>
       /\ (\E key \in MoveKeys : Key_Move(key)) => floatings' = floatings
       /\ (keys' # keys) =>
             \/ floatings' = <<>>
             \/ floatings' = floatings /\ document_rows' = document_rows /\ dirty' = dirty
      ]_vars

\* a tooltip was shown for the cursor at the origin, stayed through a cursor key and was
\* cleared by a character key
C35_Witness ==
    /\ dpc = "idle"
    /\ hoverRet.ret = "Markup"
    /\ Field(sent[Len(sent)], ",\"line\":", "},\"textDocument\":{\"uri\":\"") = Decimal(0)
    /\ Field(sent[Len(sent)], "{\"position\":{\"character\":", ",\"line\":") = Decimal(0)
    /\ cursor = <<0, 2>>
    /\ dirty
    /\ floatings = <<>>

\* the Ctrl-Q keys read so far on a dirty document
DirtyPresses == Cardinality({i \in 1..Len(ctrlq) : ctrlq[i]})

\* C36: the editor has quit exactly when the last Ctrl-Q found the document clean or was
\* the third Ctrl-Q on a dirty document since startup, whatever keys came between; the
\* counter of remaining presses stays between 1 and 3.
C36_QuitConfirmation ==
    /\ quit_times \in 1..3
    /\ DirtyPresses <= 3
    /\ should_quit <=> /\ Len(ctrlq) > 0
                       /\ ~ctrlq[Len(ctrlq)] \/ DirtyPresses = 3
    /\ quit_times = IF DirtyPresses >= 2 THEN 1 ELSE 3 - DirtyPresses

\* the editor has quit on the third Ctrl-Q on a dirty document, with an edit, another
\* key and a hover trigger before it
C36_Witness ==
    /\ should_quit
    /\ ctrlq = <<TRUE, TRUE, TRUE>>
    /\ keys >= 2
    /\ Count("textDocument/hover") = 1
    /\ quit_times = 1

====
